---- MODULE Spec2Model ----
(***************************************************************************)
(* Model of the pull-based operators of src/execution/aggregate.rs and     *)
(* src/execution/projection.rs: AggregateRelation::next and                *)
(* ProjectRelation::next, together with the helpers they call.             *)
(*                                                                         *)
(* Values are integers.  A Float64 value is represented by an integer (a   *)
(* fixed-point reading of the number) and a Utf8 value by the integer code *)
(* of its text; the data_type tag of the array keeps the three apart.      *)
(* An array is [data_type, values, nulls]; nulls[i] is the validity bit of *)
(* slot i (TRUE = null; a null slot stores 0).                             *)
(* Sequences are 1-based here; the index of Column(i) is 0-based as in the *)
(* source, and column i of a batch is batch.columns[i + 1].                *)
(***************************************************************************)
EXTENDS Integers, Sequences, FiniteSets

VARIABLES rel, input_schema, schema, group_expr, aggr_expr, expr,
          calls, input_done, pulled, result,
          batches_in, batches_out, nones_out,
          map, accumulated, allocated

vars == <<rel, input_schema, schema, group_expr, aggr_expr, expr,
          calls, input_done, pulled, result,
          batches_in, batches_out, nones_out,
          map, accumulated, allocated>>

config == <<rel, input_schema, schema, group_expr, aggr_expr, expr>>

(***************************************************************************)
(* Bounds of the model.                                                    *)
(***************************************************************************)
MaxRows == 2
MaxCalls == 3

(***************************************************************************)
(* Input data: the schemas of the input relations of the tests, cities     *)
(* (name Utf8, lat Float64, lng Float64) and people (id Int32, first_name  *)
(* Utf8), and the rows the batches of each are made of.                    *)
(***************************************************************************)
Field_new(name, data_type, nullable) ==
    [name |-> name, data_type |-> data_type, nullable |-> nullable]

CitiesSchema ==
    << Field_new("name", "Utf8", FALSE),
       Field_new("lat", "Float64", FALSE),
       Field_new("lng", "Float64", FALSE) >>

PeopleSchema ==
    << Field_new("id", "Int32", FALSE),
       Field_new("first_name", "Utf8", FALSE) >>

CitiesRows == { <<97, 10, 3>>, <<98, 5, 3>>, <<97, 20, 4>> }

PeopleRows == { <<1, 97>>, <<1, 98>>, <<2, 97>> }

Rows(s) == IF s = PeopleSchema THEN PeopleRows ELSE CitiesRows

SeqsUpTo(S, n) == UNION { [1..k -> S] : k \in 0..n }

MakeArray(data_type, values) ==
    [data_type |-> data_type,
     values    |-> values,
     nulls     |-> [i \in 1..Len(values) |-> FALSE]]

MakeBatch(s, rows) ==
    [schema  |-> s,
     columns |-> [c \in 1..Len(s) |->
                    MakeArray(s[c].data_type,
                              [r \in 1..Len(rows) |-> rows[r][c]])]]

Batches(s) == { MakeBatch(s, rows) : rows \in SeqsUpTo(Rows(s), MaxRows) }

num_rows(batch) == Len(batch.columns[1].values)

(***************************************************************************)
(* Results: Result<Option<RecordBatch>> plus the abort of a panic.         *)
(***************************************************************************)
OkNone == [tag |-> "None"]
OkSome(batch) == [tag |-> "Batch", batch |-> batch]
Err(e) == [tag |-> "Err", err |-> e]
Panic == [tag |-> "Panic"]
NotCalled == [tag |-> "NotCalled"]

ExecutionError(kind, msg) == [kind |-> kind, msg |-> msg]

InputError == ExecutionError("IoError", "E0")
EvalError1 == ExecutionError("ExecutionError", "E1")
EvalError2 == ExecutionError("ExecutionError", "E2")

\* What one call of input.next() can return.
InputItems(s) ==
    {OkNone, Err(InputError)} \cup { OkSome(b) : b \in Batches(s) }

(***************************************************************************)
(* Column evaluators (RuntimeExpr::Compiled): a closure from a batch to    *)
(* Result<ArrayRef> with a declared name and type.  Column(s, i) is        *)
(* Expr::Column(i) compiled against schema s: it returns column i of the   *)
(* batch and carries the name and type of field i of s.  Failing(e) is an  *)
(* evaluator whose closure fails.                                          *)
(***************************************************************************)
Column(s, i) ==
    [kind |-> "Compiled", func |-> "Column", index |-> i, err |-> EvalError1,
     name |-> s[i + 1].name, t |-> s[i + 1].data_type]

Failing(e) ==
    [kind |-> "Compiled", func |-> "Failing", index |-> 0, err |-> e,
     name |-> "failing", t |-> "Int32"]

ArrayOk(array) == [tag |-> "Ok", array |-> array]

get_func(e, batch) ==
    IF e.func = "Column" THEN ArrayOk(batch.columns[e.index + 1])
    ELSE Err(e.err)

get_name(e) == e.name

get_type(e) == e.t

\* Iterator::collect::<Result<Vec<_>>>(): the items are produced in order and
\* the first one that is not Ok ends the iteration and is the outcome.
NotOk(outs) == { i \in 1..Len(outs) : outs[i].tag # "Ok" }

Least(S) == CHOOSE i \in S : \A k \in S : i <= k

collect(outs) ==
    IF NotOk(outs) = {}
    THEN [tag |-> "Ok", arrays |-> [i \in 1..Len(outs) |-> outs[i].array]]
    ELSE outs[Least(NotOk(outs))]

RecordBatch_new(s, columns) == [schema |-> s, columns |-> columns]

(***************************************************************************)
(* ProjectRelation::next                                                   *)
(***************************************************************************)
projected_columns(e, batch) ==
    collect([i \in 1..Len(e) |-> get_func(e[i], batch)])

\* Variant of projected_schema that keeps the fields non-nullable.
projected_schema_not_nullable(e) ==
    [i \in 1..Len(e) |-> Field_new(get_name(e[i]), get_type(e[i]), FALSE)]

projected_schema(e) ==
    [i \in 1..Len(e) |-> Field_new(get_name(e[i]), get_type(e[i]), TRUE)]

\* Variant of ProjectRelation_next that unwraps the batch of an exhausted input.
ProjectRelation_next_unwrap(e, item) ==
    IF item.tag = "Err" THEN item
    ELSE IF item.tag = "None" THEN Panic
    ELSE LET cols == projected_columns(e, item.batch)
         IN  IF cols.tag = "Ok"
             THEN OkSome(RecordBatch_new(projected_schema(e), cols.arrays))
             ELSE cols

ProjectRelation_next(e, item) ==
    IF item.tag = "Err" THEN item
    ELSE IF item.tag = "None" THEN OkNone
    ELSE LET cols == projected_columns(e, item.batch)
         IN  IF cols.tag = "Ok"
             THEN OkSome(RecordBatch_new(projected_schema(e), cols.arrays))
             ELSE cols

(***************************************************************************)
(* Aggregate expressions (RuntimeExpr::AggregateFunction {f, args, t}).    *)
(***************************************************************************)
AggregateFunction(f, arg, t) ==
    [kind |-> "AggregateFunction", f |-> f, args |-> <<arg>>, t |-> t]

\* Option<T>
None == [some |-> FALSE, v |-> 0]
Some(v) == [some |-> TRUE, v |-> v]

\* arrow::array_ops::min / max: a left-to-right scan that skips null slots and
\* keeps the candidate the comparison prefers; None for an array without a
\* valid slot.
RECURSIVE min_max_helper(_, _, _, _)
min_max_helper(array, i, n, cmp) ==
    IF i > Len(array.values) THEN n
    ELSE IF array.nulls[i] THEN min_max_helper(array, i + 1, n, cmp)
    ELSE LET m == array.values[i]
         IN  IF ~n.some THEN min_max_helper(array, i + 1, Some(m), cmp)
             ELSE IF (cmp = "lt" /\ m < n.v) \/ (cmp = "gt" /\ m > n.v)
                  THEN min_max_helper(array, i + 1, Some(m), cmp)
                  ELSE min_max_helper(array, i + 1, n, cmp)

array_ops_min(array) == min_max_helper(array, 1, None, "lt")

array_ops_max(array) == min_max_helper(array, 1, None, "gt")

\* Int32Array::from(vec![value]) / Float64Array::from(vec![value])
PrimitiveArray_from(data_type, value) ==
    [data_type |-> data_type,
     values    |-> << IF value.some THEN value.v ELSE 0 >>,
     nulls     |-> << ~value.some >>]

\* downcast_ref::<Int32Array>().unwrap() panics on an array of another type.
array_min(array, dt) ==
    IF dt \in {"Int32", "Float64"}
    THEN IF array.data_type # dt THEN Panic
         ELSE ArrayOk(PrimitiveArray_from(dt, array_ops_min(array)))
    ELSE Err(ExecutionError("NotImplemented", "Unsupported data type for MIN"))

array_max(array, dt) ==
    IF dt \in {"Int32", "Float64"}
    THEN IF array.data_type # dt THEN Panic
         ELSE ArrayOk(PrimitiveArray_from(dt, array_ops_max(array)))
    ELSE Err(ExecutionError("NotImplemented", "Unsupported data type for MAX"))

\* Variant of aggregate_column with the Min and Max arms exchanged.
aggregate_column_swapped(e, batch) ==
    IF e.kind = "AggregateFunction"
    THEN LET r == get_func(e.args[1], batch)
         IN  IF r.tag = "Ok"
             THEN IF e.f = "Min" THEN array_max(r.array, e.t)
                  ELSE IF e.f = "Max" THEN array_min(r.array, e.t)
                  ELSE Err(ExecutionError("NotImplemented",
                                          "Unsupported aggregate function"))
             ELSE Err(ExecutionError("ExecutionError",
                          "Failed to evaluate argument to aggregate function"))
    ELSE Err(ExecutionError("General", "Invalid aggregate expression"))

\* The closure of the no-groups path: one output column per aggregate
\* expression.
aggregate_column(e, batch) ==
    IF e.kind = "AggregateFunction"
    THEN LET r == get_func(e.args[1], batch)
         IN  IF r.tag = "Ok"
             THEN IF e.f = "Min" THEN array_min(r.array, e.t)
                  ELSE IF e.f = "Max" THEN array_max(r.array, e.t)
                  ELSE Err(ExecutionError("NotImplemented",
                                          "Unsupported aggregate function"))
             ELSE Err(ExecutionError("ExecutionError",
                          "Failed to evaluate argument to aggregate function"))
    ELSE Err(ExecutionError("General", "Invalid aggregate expression"))

columns_without_groups(aggr, batch) ==
    collect([j \in 1..Len(aggr) |-> aggregate_column(aggr[j], batch)])

(***************************************************************************)
(* Accumulators and group entries.                                         *)
(***************************************************************************)
MinFunction_new(data_type) == [data_type |-> data_type, value |-> None]

\* MinFunction::accumulate has an empty body.
MinFunction_accumulate(self, value) == self

MinFunction_result(self) == self.value

\* self.aggr_values[i] panics on an index outside the vector.
AggregateEntry_accumulate(entry, i, value) ==
    IF i \notin 1..Len(entry.aggr_values) THEN Panic
    ELSE [tag |-> "Ok",
          entry |-> [entry EXCEPT !.aggr_values[i] =
                                     MinFunction_accumulate(@, value)]]

\* An entry is allocated with a fresh identity (the Rc allocation).
create_aggregate_entry(aggr, id) ==
    IF \E j \in 1..Len(aggr) :
          aggr[j].kind # "AggregateFunction" \/ aggr[j].f # "Min"
    THEN Panic
    ELSE [tag |-> "Ok",
          entry |-> [id |-> id,
                     aggr_values |-> [j \in 1..Len(aggr) |->
                                         MinFunction_new(aggr[j].t)]]]

\* One step of the loop of update_accumulators: accumulator j of the entry.
accumulator_step(batch, row, entry, aggr, j) ==
    IF aggr[j].kind # "AggregateFunction" THEN Panic
    ELSE LET r == get_func(aggr[j].args[1], batch)
         IN  IF r.tag # "Ok" THEN Panic
             ELSE IF aggr[j].t \notin {"Int32", "Float64"} THEN Panic
             ELSE IF r.array.data_type # aggr[j].t THEN Panic
             ELSE AggregateEntry_accumulate(entry, j,
                                            Some(r.array.values[row]))

RECURSIVE update_accumulators_from(_, _, _, _, _)
update_accumulators_from(batch, row, entry, aggr, j) ==
    IF j > Len(entry.aggr_values) THEN [tag |-> "Ok", entry |-> entry]
    ELSE LET s == accumulator_step(batch, row, entry, aggr, j)
         IN  IF s.tag # "Ok" THEN Panic
             ELSE update_accumulators_from(batch, row, s.entry, aggr, j + 1)

update_accumulators(batch, row, entry, aggr) ==
    update_accumulators_from(batch, row, entry, aggr, 1)

(***************************************************************************)
(* AggregateRelation::next                                                 *)
(***************************************************************************)
GroupByScalar(variant, v) == [variant |-> variant, v |-> v]

\* The key of a row: one GroupByScalar per group-by column; a column of a
\* type other than Int32 and Utf8 reaches unimplemented!().
group_key(group_by_keys, row) ==
    IF \E c \in 1..Len(group_by_keys) :
          group_by_keys[c].data_type \notin {"Int32", "Utf8"}
    THEN Panic
    ELSE [tag |-> "Ok",
          key |-> [c \in 1..Len(group_by_keys) |->
                     GroupByScalar(group_by_keys[c].data_type,
                                   group_by_keys[c].values[row])]]

map_insert(m, key, entry) ==
    [k \in DOMAIN m \cup {key} |-> IF k = key THEN entry ELSE m[k]]

Aborted(st) == [st EXCEPT !.tag = "Panic"]

\* The body of the loop over the rows of the batch.  st.accumulated records
\* which entry the accumulators of each key were updated in.
process_row(batch, group_by_keys, aggr, row, st) ==
    LET k == group_key(group_by_keys, row)
    IN  IF k.tag # "Ok" THEN Aborted(st)
        ELSE IF k.key \in DOMAIN st.map
        THEN LET u == update_accumulators(batch, row, st.map[k.key], aggr)
             IN  IF u.tag # "Ok" THEN Aborted(st)
                 ELSE [st EXCEPT
                         !.map = map_insert(@, k.key, u.entry),
                         !.accumulated =
                             @ \cup {[key |-> k.key, entry |-> u.entry.id]}]
        ELSE LET c == create_aggregate_entry(aggr, st.allocated + 1)
             IN  IF c.tag # "Ok" THEN Aborted(st)
                 ELSE LET u == update_accumulators(batch, row, c.entry, aggr)
                      IN  IF u.tag # "Ok"
                          THEN Aborted([st EXCEPT !.allocated = @ + 1])
                          ELSE [st EXCEPT
                                  !.map = map_insert(@, k.key, u.entry),
                                  !.allocated = @ + 1,
                                  !.accumulated =
                                      @ \cup {[key |-> k.key,
                                               entry |-> u.entry.id]}]

RECURSIVE process_rows(_, _, _, _, _)
process_rows(batch, group_by_keys, aggr, row, st) ==
    IF row > num_rows(batch) \/ st.tag # "Ok" THEN st
    ELSE process_rows(batch, group_by_keys, aggr, row + 1,
                      process_row(batch, group_by_keys, aggr, row, st))

EmptyMap == << >>

\* The outcome of one call: the value returned, the grouping map as the call
\* leaves it, and the entries allocated and updated so far.
Outcome(r, m, st) ==
    [result |-> r, map |-> m,
     allocated |-> st.allocated, accumulated |-> st.accumulated]

AggregateRelation_next(self, item, heap) ==
    IF item.tag = "Err" THEN Outcome(item, EmptyMap, heap)
    ELSE IF item.tag = "None" THEN Outcome(OkNone, EmptyMap, heap)
    ELSE IF self.group_expr = << >>
    THEN LET columns == columns_without_groups(self.aggr_expr, item.batch)
         IN  IF columns.tag = "Ok"
             THEN Outcome(OkSome(RecordBatch_new(self.schema, columns.arrays)),
                          EmptyMap, heap)
             ELSE Outcome(columns, EmptyMap, heap)
    ELSE LET group_by_keys ==
                 collect([i \in 1..Len(self.group_expr) |->
                             get_func(self.group_expr[i], item.batch)])
         IN  IF group_by_keys.tag # "Ok"
             THEN Outcome(group_by_keys, EmptyMap, heap)
             ELSE LET st == process_rows(
                                item.batch, group_by_keys.arrays,
                                self.aggr_expr, 1,
                                [tag |-> "Ok", map |-> EmptyMap,
                                 allocated |-> heap.allocated,
                                 accumulated |-> heap.accumulated])
                      result_columns == group_by_keys.arrays
                  IN  IF st.tag # "Ok" THEN Outcome(Panic, st.map, st)
                      ELSE Outcome(OkSome(RecordBatch_new(self.schema,
                                                          result_columns)),
                                   st.map, st)

(***************************************************************************)
(* Configurations.  An operator has at least one output column.  The       *)
(* aggregate expressions cover MIN and MAX over both numeric types, a      *)
(* function kind without an implementation (Sum), a declared type that is  *)
(* not the argument's type, a declared type without a reduction (Utf8), an *)
(* argument evaluator that fails, and an expression that is no aggregate.  *)
(***************************************************************************)
MinLat == AggregateFunction("Min", Column(CitiesSchema, 1), "Float64")
MaxLat == AggregateFunction("Max", Column(CitiesSchema, 1), "Float64")
MinLng == AggregateFunction("Min", Column(CitiesSchema, 2), "Float64")
SumLat == AggregateFunction("Sum", Column(CitiesSchema, 1), "Float64")
MinLatAsInt32 == AggregateFunction("Min", Column(CitiesSchema, 1), "Int32")
MinName == AggregateFunction("Min", Column(CitiesSchema, 0), "Utf8")
MinFailing == AggregateFunction("Min", Failing(EvalError1), "Int32")
MinId == AggregateFunction("Min", Column(PeopleSchema, 0), "Int32")
MaxId == AggregateFunction("Max", Column(PeopleSchema, 0), "Int32")
SumId == AggregateFunction("Sum", Column(PeopleSchema, 0), "Int32")

\* aggr_expr of the configurations without group-by expressions, over the
\* cities and over the people.
CitiesAggrExprLists ==
    { <<MinLat>>, <<MaxLat>>, <<MaxLat, MinLng>>,
      <<SumLat>>, <<MinLat, SumLat>>, <<MinLatAsInt32>>, <<MinName>>,
      <<MinFailing>>, <<MinFailing, SumLat>>, <<MinLat, MinFailing>>,
      <<Column(CitiesSchema, 1)>> }

PeopleAggrExprLists == { <<MinId>>, <<MaxId, MinId>> }

\* (input schema, group_expr, aggr_expr) of the grouped configurations.
GroupedConfigs ==
    { << PeopleSchema, <<Column(PeopleSchema, 0)>>, <<MinId>> >>,
      << PeopleSchema, <<Column(PeopleSchema, 1)>>, << >> >>,
      << PeopleSchema,
         <<Column(PeopleSchema, 0), Column(PeopleSchema, 1)>>, <<MinId>> >>,
      << PeopleSchema, <<Column(PeopleSchema, 1)>>, <<MaxId>> >>,
      << PeopleSchema,
         <<Column(PeopleSchema, 0), Failing(EvalError2)>>, <<SumId>> >>,
      << CitiesSchema, <<Column(CitiesSchema, 0)>>, <<MinLat, MinLng>> >>,
      << CitiesSchema, <<Column(CitiesSchema, 0)>>, <<MinLatAsInt32>> >>,
      << CitiesSchema, <<Column(CitiesSchema, 0)>>, <<MinFailing>> >>,
      << CitiesSchema, <<Column(CitiesSchema, 0)>>, <<MinName>> >>,
      << CitiesSchema, <<Column(CitiesSchema, 0)>>,
         <<Column(CitiesSchema, 1)>> >>,
      << CitiesSchema, <<Column(CitiesSchema, 1)>>, <<MinLat>> >>,
      << CitiesSchema,
         <<Failing(EvalError1), Failing(EvalError2)>>, <<MinLat>> >> }

AggregateConfigs ==
    { << CitiesSchema, << >>, a >> : a \in CitiesAggrExprLists }
        \cup { << PeopleSchema, << >>, a >> : a \in PeopleAggrExprLists }
        \cup GroupedConfigs

\* (input schema, expr) of the projections.
ProjectConfigs ==
    { << PeopleSchema, <<Column(PeopleSchema, 0)>> >>,
      << PeopleSchema, <<Column(PeopleSchema, 1), Column(PeopleSchema, 0)>> >>,
      << PeopleSchema, <<Column(PeopleSchema, 1), Failing(EvalError1)>> >>,
      << PeopleSchema, <<Failing(EvalError2), Failing(EvalError1)>> >>,
      << CitiesSchema,
         <<Column(CitiesSchema, 0), Column(CitiesSchema, 1),
           Column(CitiesSchema, 2)>> >> }

\* The name an aggregate function has in Expr::AggregateFunction.
function_name(f) ==
    IF f = "Min" THEN "min" ELSE IF f = "Max" THEN "max" ELSE "sum"

\* The fields of the schema the caller configures the aggregate with: the
\* group-by expressions, then the aggregate expressions, in declaration
\* order; the field of min(lat) is min_lat.
output_field(e) ==
    IF e.kind = "AggregateFunction"
    THEN Field_new(function_name(e.f) \o "_" \o get_name(e.args[1]),
                   e.t, FALSE)
    ELSE Field_new(get_name(e), get_type(e), FALSE)

output_schema(group, aggr) ==
    [i \in 1..(Len(group) + Len(aggr)) |->
        IF i <= Len(group) THEN output_field(group[i])
        ELSE output_field(aggr[i - Len(group)])]

(***************************************************************************)
(* The state machine: a caller pulls from one operator; every pull makes   *)
(* the operator pull once from its input, which returns a batch, an error  *)
(* or None, and None for ever after it has returned None.                  *)
(***************************************************************************)
InitCalls ==
    /\ calls = 0
    /\ input_done = FALSE
    /\ pulled = NotCalled
    /\ result = NotCalled
    /\ batches_in = 0
    /\ batches_out = 0
    /\ nones_out = 0
    /\ map = EmptyMap
    /\ accumulated = {}
    /\ allocated = 0

InitAggregate ==
    /\ rel = "Aggregate"
    /\ \E c \in AggregateConfigs :
          input_schema = c[1] /\ group_expr = c[2] /\ aggr_expr = c[3]
    /\ schema = output_schema(group_expr, aggr_expr)
    /\ expr = << >>
    /\ InitCalls

InitProject ==
    /\ rel = "Project"
    /\ \E c \in ProjectConfigs : input_schema = c[1] /\ expr = c[2]
    /\ schema = input_schema
    /\ group_expr = << >>
    /\ aggr_expr = << >>
    /\ InitCalls

Init == InitAggregate \/ InitProject

Pull(item) ==
    /\ calls < MaxCalls
    /\ result.tag # "Panic"
    /\ input_done => item = OkNone
    /\ calls' = calls + 1
    /\ pulled' = item
    /\ input_done' = (input_done \/ item = OkNone)
    /\ batches_in' = batches_in + (IF item.tag = "Batch" THEN 1 ELSE 0)

Returned(r) ==
    /\ result' = r
    /\ batches_out' = batches_out + (IF r.tag = "Batch" THEN 1 ELSE 0)
    /\ nones_out' = nones_out + (IF r.tag = "None" THEN 1 ELSE 0)

AggregateNext ==
    /\ rel = "Aggregate"
    /\ \E item \in InputItems(input_schema) :
          /\ Pull(item)
          /\ LET o == AggregateRelation_next(
                          [schema |-> schema, group_expr |-> group_expr,
                           aggr_expr |-> aggr_expr],
                          item,
                          [allocated |-> allocated,
                           accumulated |-> accumulated])
             IN  /\ Returned(o.result)
                 /\ map' = o.map
                 /\ allocated' = o.allocated
                 /\ accumulated' = o.accumulated
    /\ UNCHANGED config

ProjectNext ==
    /\ rel = "Project"
    /\ \E item \in InputItems(input_schema) :
          /\ Pull(item)
          /\ Returned(ProjectRelation_next(expr, item))
    /\ UNCHANGED <<config, map, allocated, accumulated>>

Next == AggregateNext \/ ProjectNext

Spec == Init /\ [][Next]_vars

(***************************************************************************)
(* Vocabulary of the properties.                                           *)
(***************************************************************************)
Grouped == rel = "Aggregate" /\ group_expr # << >>

NoGroups == rel = "Aggregate" /\ group_expr = << >>

Succeeds(e) == e.func = "Column"

\* The argument column of aggregate expression e in a batch.
ArgumentColumn(e, batch) == batch.columns[e.args[1].index + 1]

\* MIN or MAX over an Int32 or Float64 argument column.
NumericMinMax(e) ==
    /\ e.kind = "AggregateFunction"
    /\ e.f \in {"Min", "Max"}
    /\ e.t \in {"Int32", "Float64"}
    /\ Succeeds(e.args[1])
    /\ get_type(e.args[1]) = e.t

FirstFailing(es) == Least({ i \in 1..Len(es) : ~Succeeds(es[i]) })

\* C1 (as claimed): with group-by expressions no output batch is yielded
\* before the input has returned None, and exactly one output batch is
\* yielded over the whole sequence of next() calls on n >= 1 input batches.
C1_GroupedDrainsInput ==
    Grouped => /\ batches_out > 0 => input_done
               /\ batches_out <= 1
               /\ (input_done /\ batches_in >= 1) => batches_out = 1

\* C2: without group-by expressions at most one result batch is yielded over
\* any sequence of next() calls, and it covers the first input batch.
C2_AtMostOneResult ==
    NoGroups => /\ batches_out <= 1
                /\ result.tag = "Batch" => batches_in = 1

\* C3: without group-by expressions and with every aggregate expression a MIN
\* or MAX over an Int32 or Float64 argument column, a next() call that pulls a
\* non-empty batch returns a batch of exactly one row with one column per
\* aggregate expression in declaration order, column j holding the minimum
\* (MIN) or maximum (MAX) of the values of the j-th argument column.
C3_MinMaxOfBatch ==
    (/\ NoGroups
     /\ \A j \in 1..Len(aggr_expr) : NumericMinMax(aggr_expr[j])
     /\ pulled.tag = "Batch"
     /\ num_rows(pulled.batch) > 0) =>
        /\ result.tag = "Batch"
        /\ result.batch.schema = schema
        /\ Len(result.batch.columns) = Len(aggr_expr)
        /\ \A j \in 1..Len(aggr_expr) :
              LET col == result.batch.columns[j]
                  src == ArgumentColumn(aggr_expr[j], pulled.batch).values
              IN  /\ Len(col.values) = 1
                  /\ ~col.nulls[1]
                  /\ col.data_type = aggr_expr[j].t
                  /\ col.values[1] \in { src[i] : i \in 1..Len(src) }
                  /\ aggr_expr[j].f = "Min" =>
                        \A i \in 1..Len(src) : col.values[1] <= src[i]
                  /\ aggr_expr[j].f = "Max" =>
                        \A i \in 1..Len(src) : col.values[1] >= src[i]

C3_Witness ==
    /\ NoGroups
    /\ Len(aggr_expr) = 2
    /\ aggr_expr[1].f = "Max" /\ aggr_expr[2].f = "Min"
    /\ \A j \in 1..Len(aggr_expr) : NumericMinMax(aggr_expr[j])
    /\ pulled.tag = "Batch"
    /\ num_rows(pulled.batch) = MaxRows
    /\ \A j \in 1..Len(aggr_expr) :
          LET src == ArgumentColumn(aggr_expr[j], pulled.batch).values
          IN  src[1] # src[2]
    /\ result.tag = "Batch"

\* C4 (as claimed): with group-by expressions the output batch has one row
\* per distinct group key and len(group_expr) + len(aggr_expr) columns, as
\* many as the configured output schema has fields.
C4_OneRowPerKey ==
    (Grouped /\ result.tag = "Batch") =>
        /\ Len(result.batch.columns) = Len(group_expr) + Len(aggr_expr)
        /\ Len(result.batch.columns) = Len(schema)
        /\ \A c \in 1..Len(result.batch.columns) :
              Len(result.batch.columns[c].values) = Cardinality(DOMAIN map)

\* C5 (as claimed): an unsupported aggregate function kind, an unsupported
\* scalar type in a group key and a mismatch between an aggregate's declared
\* type and its argument column's type never make next() panic.  (The
\* aggregate expressions considered have an argument evaluator that succeeds
\* and a declared numeric type, so that nothing else can go wrong.)
C5_ErrorsNotPanics ==
    (/\ rel = "Aggregate"
     /\ \A i \in 1..Len(group_expr) : Succeeds(group_expr[i])
     /\ \A j \in 1..Len(aggr_expr) :
           /\ aggr_expr[j].kind = "AggregateFunction"
           /\ Succeeds(aggr_expr[j].args[1])
           /\ aggr_expr[j].t \in {"Int32", "Float64"}) =>
        result.tag # "Panic"

\* C6 (as claimed): the first error met during a next() call, from the
\* input's next() or from a column evaluator (group-by, aggregate argument or
\* projection expression), is the value next() returns.
C6_FirstErrorVerbatim ==
    /\ pulled.tag = "Err" => result = pulled
    /\ (/\ rel = "Project"
        /\ pulled.tag = "Batch"
        /\ \E i \in 1..Len(expr) : ~Succeeds(expr[i])) =>
           result = Err(expr[FirstFailing(expr)].err)
    /\ (/\ Grouped
        /\ pulled.tag = "Batch"
        /\ \E i \in 1..Len(group_expr) : ~Succeeds(group_expr[i])) =>
           result = Err(group_expr[FirstFailing(group_expr)].err)
    /\ (/\ NoGroups
        /\ pulled.tag = "Batch"
        /\ aggr_expr[1].kind = "AggregateFunction"
        /\ ~Succeeds(aggr_expr[1].args[1])) =>
           result = Err(aggr_expr[1].args[1].err)

\* C7: for a batch pulled from the input whose evaluators all succeed,
\* ProjectRelation.next() returns a batch determined by that batch alone: one
\* column per evaluator, column i the result of evaluator i on the batch,
\* field i of its schema carrying the evaluator's declared name and type and
\* nullable; Column(i) reproduces input column i with its name and type.
C7_ProjectionOfBatch ==
    (/\ rel = "Project"
     /\ pulled.tag = "Batch"
     /\ \A i \in 1..Len(expr) : Succeeds(expr[i])) =>
        /\ result.tag = "Batch"
        /\ Len(result.batch.columns) = Len(expr)
        /\ Len(result.batch.schema) = Len(expr)
        /\ \A i \in 1..Len(expr) :
              /\ ArrayOk(result.batch.columns[i])
                    = get_func(expr[i], pulled.batch)
              /\ result.batch.columns[i]
                    = pulled.batch.columns[expr[i].index + 1]
              /\ result.batch.schema[i].name = get_name(expr[i])
              /\ result.batch.schema[i].data_type = get_type(expr[i])
              /\ result.batch.schema[i].nullable
              /\ result.batch.schema[i].name
                    = pulled.batch.schema[expr[i].index + 1].name
              /\ result.batch.schema[i].data_type
                    = pulled.batch.columns[expr[i].index + 1].data_type

C7_Witness ==
    /\ rel = "Project"
    /\ calls = 2
    /\ batches_out = 2
    /\ expr = << Column(PeopleSchema, 1), Column(PeopleSchema, 0) >>
    /\ num_rows(pulled.batch) = MaxRows
    /\ result.tag = "Batch"

\* C8: for both operators next() returns None exactly on the pulls on which
\* the input returns None, also on the calls made after None has been
\* returned, none of which panics.
C8_NoneIffInputNone ==
    /\ pulled.tag = "None" => result.tag = "None"
    /\ result.tag = "None" => pulled.tag = "None"
    /\ nones_out > 0 => result.tag = "None"

C8_Witness ==
    /\ batches_out >= 1
    /\ nones_out >= 2
    /\ result.tag = "None"

\* C9 (as claimed): in grouped aggregation two rows of one pass are
\* accumulated into the same Group Entry if and only if their group keys are
\* equal.
C9_GroupKeyUniqueness ==
    Grouped =>
        \A a \in accumulated : \A b \in accumulated :
            (a.key = b.key) <=> (a.entry = b.entry)

\* C10 (as claimed): after a grouped pass over a batch every accumulator of
\* every Group Entry holds a value, the MIN of its aggregate argument over
\* the rows of the batch that have the entry's key.
C10_MinAccumulates ==
    (Grouped /\ result.tag = "Batch") =>
        \A k \in DOMAIN map : \A j \in 1..Len(map[k].aggr_values) :
            LET r == MinFunction_result(map[k].aggr_values[j])
                rows == { i \in 1..num_rows(pulled.batch) :
                             group_key(result.batch.columns, i).key = k }
                arg == ArgumentColumn(aggr_expr[j], pulled.batch).values
            IN  /\ r.some
                /\ r.v \in { arg[i] : i \in rows }
                /\ \A i \in rows : r.v <= arg[i]

====
